---- MODULE Spec2Model ----
(***************************************************************************)
(* Preference-driven ranking and search of otodoki2web:                    *)
(*   backend/app/services/preference_analyzer.py  (PreferenceAnalyzer)     *)
(*   backend/app/services/personalization.py      (PersonalizationService) *)
(*   backend/app/services/search_strategies/      (get_strategy,           *)
(*                                    UserPreferenceSearchStrategy)        *)
(*   backend/app/main.py, backend/app/api/deps.py (suggestions endpoint)   *)
(* Execution is cooperative: a call runs from one await to the next, and   *)
(* the evaluation-history reads are the suspension points at which other   *)
(* requests write to the store or other calls run.                         *)
(*   Spec                    one user, personalize_tracks one call at a    *)
(*                           time                                          *)
(*   SpecUsers               the same for two users                        *)
(*   SpecEndpoint            requests to the suggestions endpoint          *)
(*   SpecStrategy            a resolved strategy, generate_params calls    *)
(*                           may overlap                                   *)
(*   SpecStrategySequential  the same, calls do not overlap                *)
(***************************************************************************)
EXTENDS Integers, Sequences, FiniteSets

\* ------------------------------------------------------------------------
\* Bounds of the model
\* ------------------------------------------------------------------------
MaxLikes == 3
MaxDislikes == 1
MaxTracks == 3
MaxOtherRows == 1
MaxGenerateCalls == 2

\* min_likes: int = 3, the default threshold of both functions.
DefaultMinLikes == 3
\* min_likes passed by _load_preferences.
StrategyMinLikes == 3
\* limit passed to get_top_genres / get_top_artists by the strategy.
TopLimit == 3

\* ------------------------------------------------------------------------
\* Data
\* ------------------------------------------------------------------------
\* Values of TrackCache.primary_genre / Track.genre; "" is the empty or
\* missing (None) field, both falsy in the code's `if track.genre`.
Genres == {"", "Rock", "Pop", "Jazz", "Folk"}

\* Values of TrackCache.artist / Track.artist.
Artists == {"", "Band", "Solo", "Trio", "Duo", "Singer"}

\* The persisted records (TrackCache) the evaluations point to: one with
\* genre and artist, one with a genre only, one with an artist only. The
\* field primary_genre is written genre, as in the request-time Track.
TrackCacheKinds ==
    {[genre |-> "Rock", artist |-> "Band"],
     [genre |-> "Pop", artist |-> ""],
     [genre |-> "", artist |-> "Solo"]}

\* The request-time tracks (Track) of a candidate batch: the same three and
\* one with neither genre nor artist.
TrackKinds == TrackCacheKinds \cup {[genre |-> "", artist |-> ""]}

EvaluationStatus == {"LIKE", "DISLIKE"}

\* The thresholds the calls pass: the default and a lower one.
MinLikesValues == {1, DefaultMinLikes}

RECURSIVE SeqsUpTo(_, _)
SeqsUpTo(S, n) ==
    IF n = 0 THEN {<<>>}
    ELSE LET shorter == SeqsUpTo(S, n - 1)
         IN  shorter \cup {Append(s, x) : s \in {t \in shorter : Len(t) = n - 1}, x \in S}

Front(s) == SubSeq(s, 1, Len(s) - 1)

\* The value analyze_preferences returns for "no profile" (None).
NoPreferences ==
    [present |-> FALSE,
     liked_genres |-> <<>>, liked_artists |-> <<>>,
     disliked_genres |-> <<>>, disliked_artists |-> <<>>,
     total_likes |-> 0, total_dislikes |-> 0]

\* ------------------------------------------------------------------------
\* PreferenceAnalyzer
\* ------------------------------------------------------------------------
\* collections.Counter(values): one <<value, count>> item per distinct value,
\* kept in the order in which the values were first seen.
RECURSIVE Counter(_)
Counter(values) ==
    IF values = <<>> THEN <<>>
    ELSE LET rest == Counter(Front(values))
             v == values[Len(values)]
         IN  IF \E i \in DOMAIN rest : rest[i][1] = v
             THEN [i \in DOMAIN rest |->
                      IF rest[i][1] = v THEN <<v, rest[i][2] + 1>> ELSE rest[i]]
             ELSE Append(rest, <<v, 1>>)

\* Variant of most_common that ranks by ascending count and reverses the
\* whole list, which turns the order of equal counts around.
RECURSIVE most_common_ties_reversed(_)
most_common_ties_reversed(items) ==
    IF items = <<>> THEN <<>>
    ELSE LET sorted == most_common_ties_reversed(Front(items))
             x == items[Len(items)]
             k == Cardinality({i \in DOMAIN sorted : sorted[i][2] > x[2]})
         IN  SubSeq(sorted, 1, k) \o <<x>> \o SubSeq(sorted, k + 1, Len(sorted))

\* Counter.most_common(): sorted(items, key=count, reverse=True), a stable
\* sort, so items of equal count keep their first-seen order.
RECURSIVE most_common(_)
most_common(items) ==
    IF items = <<>> THEN <<>>
    ELSE LET sorted == most_common(Front(items))
             x == items[Len(items)]
             k == Cardinality({i \in DOMAIN sorted : sorted[i][2] >= x[2]})
         IN  SubSeq(sorted, 1, k) \o <<x>> \o SubSeq(sorted, k + 1, Len(sorted))

\* Variant of _count_genres without the `if track.primary_genre` filter.
_count_genres_unfiltered(tracks) ==
    most_common(Counter([i \in DOMAIN tracks |-> tracks[i].genre]))

_count_genres(tracks) ==
    LET genres == SelectSeq([i \in DOMAIN tracks |-> tracks[i].genre],
                            LAMBDA g : g # "")
    IN  most_common(Counter(genres))

_count_artists(tracks) ==
    LET artists == SelectSeq([i \in DOMAIN tracks |-> tracks[i].artist],
                             LAMBDA a : a # "")
    IN  most_common(Counter(artists))

\* Variant of UserPreferences whose threshold counts every evaluation.
UserPreferences_threshold_on_all(liked, disliked, minLikes) ==
    IF Len(liked) + Len(disliked) < minLikes THEN NoPreferences
    ELSE [present |-> TRUE,
          liked_genres |-> _count_genres(liked),
          liked_artists |-> _count_artists(liked),
          disliked_genres |-> _count_genres(disliked),
          disliked_artists |-> _count_artists(disliked),
          total_likes |-> Len(liked),
          total_dislikes |-> Len(disliked)]

\* Variant of UserPreferences whose total_dislikes is taken from the liked
\* tracks.
UserPreferences_totals_mixed_up(liked, disliked, minLikes) ==
    IF Len(liked) < minLikes THEN NoPreferences
    ELSE [present |-> TRUE,
          liked_genres |-> _count_genres(liked),
          liked_artists |-> _count_artists(liked),
          disliked_genres |-> _count_genres(disliked),
          disliked_artists |-> _count_artists(disliked),
          total_likes |-> Len(liked),
          total_dislikes |-> Len(liked)]

\* The body of analyze_preferences after both reads have returned.
UserPreferences(liked, disliked, minLikes) ==
    IF Len(liked) < minLikes THEN NoPreferences
    ELSE [present |-> TRUE,
          liked_genres |-> _count_genres(liked),
          liked_artists |-> _count_artists(liked),
          disliked_genres |-> _count_genres(disliked),
          disliked_artists |-> _count_artists(disliked),
          total_likes |-> Len(liked),
          total_dislikes |-> Len(disliked)]

\* ------------------------------------------------------------------------
\* PersonalizationService
\* ------------------------------------------------------------------------
\* key in dict(pairs)
InDict(pairs, key) == \E i \in DOMAIN pairs : pairs[i][1] = key

\* dict(pairs)[key]: a later pair of the same key overwrites an earlier one.
DictGet(pairs, key) ==
    LET last == CHOOSE i \in DOMAIN pairs :
                    /\ pairs[i][1] = key
                    /\ \A j \in DOMAIN pairs : pairs[j][1] = key => j <= i
    IN  pairs[last][2]

\* Variant of _score_track with `elif` for the disliked tables: a liked
\* value is not penalised.
_score_track_elif(track, preferences) ==
    LET genre ==
            IF track.genre # "" /\ InDict(preferences.liked_genres, track.genre)
            THEN 10 + DictGet(preferences.liked_genres, track.genre)
            ELSE IF track.genre # "" /\ InDict(preferences.disliked_genres, track.genre)
            THEN 0 - 5 ELSE 0
        artist ==
            IF track.artist # "" /\ InDict(preferences.liked_artists, track.artist)
            THEN 15 + DictGet(preferences.liked_artists, track.artist) * 2
            ELSE IF track.artist # "" /\ InDict(preferences.disliked_artists, track.artist)
            THEN 0 - 10 ELSE 0
    IN  genre + artist

_score_track(track, preferences) ==
    LET genreLiked ==
            IF track.genre # "" /\ InDict(preferences.liked_genres, track.genre)
            THEN 10 + DictGet(preferences.liked_genres, track.genre) ELSE 0
        genreDisliked ==
            IF track.genre # "" /\ InDict(preferences.disliked_genres, track.genre)
            THEN 5 ELSE 0
        artistLiked ==
            IF track.artist # "" /\ InDict(preferences.liked_artists, track.artist)
            THEN 15 + DictGet(preferences.liked_artists, track.artist) * 2 ELSE 0
        artistDisliked ==
            IF track.artist # "" /\ InDict(preferences.disliked_artists, track.artist)
            THEN 10 ELSE 0
    IN  genreLiked - genreDisliked + artistLiked - artistDisliked

\* Variant of sort_scored that sorts ascending and reverses the list, which
\* turns the order of equal scores around.
RECURSIVE sort_scored_ties_reversed(_)
sort_scored_ties_reversed(scored) ==
    IF scored = <<>> THEN <<>>
    ELSE LET sorted == sort_scored_ties_reversed(Front(scored))
             x == scored[Len(scored)]
             k == Cardinality({i \in DOMAIN sorted : sorted[i][2] > x[2]})
         IN  SubSeq(sorted, 1, k) \o <<x>> \o SubSeq(sorted, k + 1, Len(sorted))

\* scored_tracks.sort(key=lambda x: x[1], reverse=True): stable, descending.
RECURSIVE sort_scored(_)
sort_scored(scored) ==
    IF scored = <<>> THEN <<>>
    ELSE LET sorted == sort_scored(Front(scored))
             x == scored[Len(scored)]
             k == Cardinality({i \in DOMAIN sorted : sorted[i][2] >= x[2]})
         IN  SubSeq(sorted, 1, k) \o <<x>> \o SubSeq(sorted, k + 1, Len(sorted))

\* Variant of personalized that leaves out the tracks of negative score.
personalized_drops_negative(trackList, preferences) ==
    LET scored_tracks == [i \in DOMAIN trackList |->
                             <<trackList[i], _score_track(trackList[i], preferences)>>]
        sorted == SelectSeq(sort_scored(scored_tracks), LAMBDA x : x[2] >= 0)
    IN  [i \in DOMAIN sorted |-> sorted[i][1]]

\* The scored list, sorted, with the scores stripped.
personalized(trackList, preferences) ==
    LET scored_tracks == [i \in DOMAIN trackList |->
                             <<trackList[i], _score_track(trackList[i], preferences)>>]
        sorted == sort_scored(scored_tracks)
    IN  [i \in DOMAIN sorted |-> sorted[i][1]]

\* ------------------------------------------------------------------------
\* State
\* ------------------------------------------------------------------------
\* The users whose evaluations the store holds.
FirstUser == "u1"

OtherUser == "u2"

Users == {FirstUser, OtherUser}

VARIABLES
    evaluations,      \* the store: per user and status, the evaluated tracks in row order
    pc,               \* position of the personalize_tracks call
    user,             \* argument: the user (user.id)
    tracks,           \* argument: the caller's list object (its current contents)
    min_likes,        \* argument
    liked_tracks,     \* analyzer local: result of the first read
    disliked_tracks,  \* analyzer local: result of the second read
    preferences,      \* what analyze_preferences returned
    fault,            \* the step of the call that raised, if any
    analyzer_raised,  \* an exception left analyze_preferences
    returned,         \* what personalize_tracks returned
    raised,           \* an exception left personalize_tracks
    path,             \* the return statement personalize_tracks took
    analyzer_calls,   \* analyze_preferences invocations of this call
    store_reads,      \* session.execute invocations of this call
    request,          \* get_track_suggestions: the request being served
    response,         \* get_track_suggestions: what the endpoint answered
    resolution,       \* get_strategy: the name asked for and the outcome
    strategy,         \* the strategy instance get_strategy returned, its fields
    gen,              \* per generate_params call: position, locals, result
    loads             \* analyze_preferences invocations by the strategy instance

call_vars == <<pc, user, tracks, min_likes, liked_tracks, disliked_tracks,
               preferences, fault, analyzer_raised, returned, raised, path,
               analyzer_calls, store_reads>>

\* The state of the suggestions endpoint.
endpoint_vars == <<request, response>>

\* The state of the search strategies and of their registry.
strategy_vars == <<resolution, strategy, gen, loads>>

vars == <<evaluations, call_vars, endpoint_vars, strategy_vars>>

\* The generate_params calls that may be in progress on the instance.
CallIds == 1 .. MaxGenerateCalls

NoResolution ==
    [name |-> "", kwargs |-> {}, module |-> "", error |-> "none", names |-> ""]

NoStrategy ==
    [kind |-> "none", session |-> FALSE, user_id |-> FALSE,
     _preferences |-> NoPreferences, _preferences_loaded |-> FALSE]

NoParams == [entity |-> "none"]

IdleCall == [pc |-> "idle", loading |-> FALSE, liked_tracks |-> <<>>, params |-> NoParams]

\* The user of an anonymous request (None).
NoUser == ""

NoRequest == [active |-> FALSE, user |-> NoUser, obtained |-> FALSE, batch |-> <<>>]

NoResponse == [status |-> 0, data |-> <<>>]

\* No call is running, no request is being served, no strategy is resolved.
Quiescent ==
    /\ pc = "idle"
    /\ user = FirstUser
    /\ tracks = <<>>
    /\ min_likes = 0
    /\ liked_tracks = <<>>
    /\ disliked_tracks = <<>>
    /\ preferences = NoPreferences
    /\ fault = "none"
    /\ analyzer_raised = FALSE
    /\ returned = <<>>
    /\ raised = FALSE
    /\ path = "none"
    /\ analyzer_calls = 0
    /\ store_reads = 0
    /\ request = NoRequest
    /\ response = NoResponse
    /\ resolution = NoResolution
    /\ strategy = NoStrategy
    /\ gen = [c \in CallIds |-> IdleCall]
    /\ loads = 0

\* No call is running and nothing is recorded yet.
Init ==
    /\ evaluations = [u \in Users |-> [LIKE |-> <<>>, DISLIKE |-> <<>>]]
    /\ Quiescent

MaxRows(userId, status) ==
    IF userId # FirstUser THEN MaxOtherRows
    ELSE IF status = "LIKE" THEN MaxLikes ELSE MaxDislikes

\* Another request records an evaluation of a user (the store only grows).
\* Execution is cooperative: another request runs only while the call is
\* suspended in a read or while no call is running, never between the
\* second read's return and the return of personalize_tracks.
RecordEvaluation(userId, status, track) ==
    /\ pc # "done"
    /\ Len(evaluations[userId][status]) < MaxRows(userId, status)
    /\ evaluations' = [evaluations EXCEPT ![userId][status] = Append(@, track)]
    /\ UNCHANGED <<call_vars, endpoint_vars, strategy_vars>>

\* Variant of liked_query without `.where(Evaluation.user_id == user_id)`.
liked_query_of_all_users(userId) ==
    evaluations[FirstUser]["LIKE"] \o evaluations[OtherUser]["LIKE"]

\* The rows liked_query selects: the tracks joined to the LIKE evaluations
\* of the user.
liked_query(userId) == evaluations[userId]["LIKE"]

\* The rows disliked_query selects.
disliked_query(userId) == evaluations[userId]["DISLIKE"]

\* Variant of analyze_except that logs and raises again.
analyze_except_reraises == [raised |-> TRUE, value |-> NoPreferences]

\* analyze_preferences, `except Exception`: log, return None.
analyze_except == [raised |-> FALSE, value |-> NoPreferences]

\* Variant of personalize_except that logs and raises again.
personalize_except_reraises(trackList) ==
    [raised |-> TRUE, value |-> <<>>, path |-> "error", argument |-> trackList]

\* personalize_tracks, `except Exception`: log, return the argument.
personalize_except(trackList) ==
    [raised |-> FALSE, value |-> trackList, path |-> "error", argument |-> trackList]

\* Variant of personalize_rest that sorts the caller's list in place
\* (tracks.sort(key=score, reverse=True)) and returns it.
personalize_rest_sorting_in_place(trackList, analysis, scoreFails) ==
    IF analysis.raised THEN personalize_except(trackList)
    ELSE IF ~analysis.value.present
         THEN [raised |-> FALSE, value |-> trackList, path |-> "absent",
               argument |-> trackList]
    ELSE IF scoreFails THEN personalize_except(trackList)
    ELSE [raised |-> FALSE, value |-> personalized(trackList, analysis.value),
          path |-> "success",
          argument |-> personalized(trackList, analysis.value)]

\* personalize_tracks from the return of analyze_preferences on: `analysis`
\* is the analyzer's outcome, `scoreFails` whether scoring the batch raises.
\* `value` is the list returned, `argument` the contents of the caller's list
\* afterwards: scored_tracks is a new list, and it is the one sorted.
personalize_rest(trackList, analysis, scoreFails) ==
    IF analysis.raised THEN personalize_except(trackList)
    ELSE IF ~analysis.value.present
         THEN [raised |-> FALSE, value |-> trackList, path |-> "absent",
               argument |-> trackList]
    ELSE IF scoreFails THEN personalize_except(trackList)
    ELSE [raised |-> FALSE, value |-> personalized(trackList, analysis.value),
          path |-> "success", argument |-> trackList]

\* Variant of Call without the `if not tracks` return.
Call_without_empty_return(userId, trackList, minLikes) ==
    /\ pc = "idle"
    /\ user' = userId
    /\ tracks' = trackList
    /\ min_likes' = minLikes
    /\ pc' = "read_liked"
    /\ analyzer_calls' = analyzer_calls + 1
    /\ UNCHANGED <<evaluations, liked_tracks, disliked_tracks, preferences,
                   fault, analyzer_raised, returned, raised, path, store_reads>>
    /\ UNCHANGED strategy_vars

\* personalize_tracks is entered; an empty batch returns at once. (The
\* caller's own state is the caller's to change.)
Call(userId, trackList, minLikes) ==
    /\ pc = "idle"
    /\ user' = userId
    /\ tracks' = trackList
    /\ min_likes' = minLikes
    /\ IF trackList = <<>>
       THEN /\ returned' = trackList
            /\ path' = "empty"
            /\ pc' = "done"
            /\ UNCHANGED analyzer_calls
       ELSE /\ pc' = "read_liked"
            /\ analyzer_calls' = analyzer_calls + 1
            /\ UNCHANGED <<returned, path>>
    /\ UNCHANGED <<evaluations, liked_tracks, disliked_tracks, preferences,
                   fault, analyzer_raised, raised, store_reads>>
    /\ UNCHANGED strategy_vars

\* Variant of endpoint_response without `response.data = personalized_tracks`.
endpoint_response_keeping_batch(batch, callRaised, callReturned) ==
    [status |-> 200, data |-> batch]

\* get_track_suggestions after personalize_tracks: the result replaces
\* response.data; if the call raised, the warning is logged and the
\* response is returned as it was.
endpoint_response(batch, callRaised, callReturned) ==
    [status |-> 200, data |-> IF callRaised THEN batch ELSE callReturned]

\* The caller resumes when personalize_tracks returns: the endpoint, if a
\* request is being served, builds its response without suspending.
CallerResumes ==
    /\ request' = request
    /\ response' = IF request.active /\ pc' = "done"
                   THEN endpoint_response(request.batch, raised', returned')
                   ELSE response

\* The call ends with the analyzer's outcome `analysis`.
Finish(analysis, scoreFails) ==
    LET res == personalize_rest(tracks, analysis, scoreFails)
    IN  /\ preferences' = analysis.value
        /\ analyzer_raised' = analysis.raised
        /\ returned' = res.value
        /\ tracks' = res.argument
        /\ raised' = res.raised
        /\ path' = res.path
        /\ pc' = "done"

\* await session.execute(liked_query): the first read returns or raises.
ReadLiked(ok) ==
    /\ pc = "read_liked"
    /\ store_reads' = store_reads + 1
    /\ IF ok
       THEN /\ liked_tracks' = liked_query(user)
            /\ pc' = "read_disliked"
            /\ UNCHANGED <<preferences, fault, analyzer_raised, returned, raised,
                           path, tracks>>
       ELSE /\ fault' = "liked_read"
            /\ Finish(analyze_except, FALSE)
            /\ UNCHANGED liked_tracks
    /\ UNCHANGED <<evaluations, user, min_likes, disliked_tracks, analyzer_calls>>
    /\ CallerResumes
    /\ UNCHANGED strategy_vars

\* await session.execute(disliked_query), then the rest of both functions,
\* which runs without suspending.
ReadDisliked(ok, scoreFails) ==
    /\ pc = "read_disliked"
    /\ store_reads' = store_reads + 1
    /\ IF ok
       THEN LET prefs == UserPreferences(liked_tracks, disliked_query(user), min_likes)
            IN  /\ disliked_tracks' = disliked_query(user)
                /\ scoreFails => prefs.present
                /\ fault' = IF scoreFails THEN "score" ELSE "none"
                /\ Finish([raised |-> FALSE, value |-> prefs], scoreFails)
       ELSE /\ ~scoreFails
            /\ fault' = "disliked_read"
            /\ Finish(analyze_except, FALSE)
            /\ UNCHANGED disliked_tracks
    /\ UNCHANGED <<evaluations, user, min_likes, liked_tracks, analyzer_calls>>
    /\ CallerResumes
    /\ UNCHANGED strategy_vars

\* The caller has taken the result; the next request may call. (The
\* caller's own state is the caller's to change.)
Return ==
    /\ pc = "done"
    /\ pc' = "idle"
    /\ user' = FirstUser
    /\ tracks' = <<>>
    /\ min_likes' = 0
    /\ liked_tracks' = <<>>
    /\ disliked_tracks' = <<>>
    /\ preferences' = NoPreferences
    /\ fault' = "none"
    /\ analyzer_raised' = FALSE
    /\ returned' = <<>>
    /\ raised' = FALSE
    /\ path' = "none"
    /\ analyzer_calls' = 0
    /\ store_reads' = 0
    /\ UNCHANGED <<evaluations, strategy_vars>>

\* A caller other than the endpoint (a test) calls the service for the
\* first user.
DirectCall(trackList, minLikes) ==
    /\ ~request.active
    /\ Call(FirstUser, trackList, minLikes)
    /\ UNCHANGED endpoint_vars

DirectReturn ==
    /\ ~request.active
    /\ Return
    /\ UNCHANGED endpoint_vars

\* The runs of one user: evaluations are recorded and personalize_tracks is
\* called, one call at a time.
Next ==
    \/ \E status \in EvaluationStatus, track \in TrackCacheKinds :
            RecordEvaluation(FirstUser, status, track)
    \/ \E trackList \in SeqsUpTo(TrackKinds, MaxTracks), minLikes \in MinLikesValues :
            DirectCall(trackList, minLikes)
    \/ \E ok \in BOOLEAN : ReadLiked(ok)
    \/ \E ok \in BOOLEAN, scoreFails \in BOOLEAN : ReadDisliked(ok, scoreFails)
    \/ DirectReturn

Spec == Init /\ [][Next]_vars

\* ------------------------------------------------------------------------
\* Calls for two users
\* ------------------------------------------------------------------------
\* The batches ranked for either user: two tracks, and three tracks with
\* the artist-only one first.
UserBatches ==
    {<<[genre |-> "Pop", artist |-> ""], [genre |-> "Rock", artist |-> "Band"]>>,
     <<[genre |-> "", artist |-> "Solo"], [genre |-> "Rock", artist |-> "Band"],
       [genre |-> "Pop", artist |-> ""]>>}

\* A caller other than the endpoint calls the service for a user.
UserCall(userId, trackList, minLikes) ==
    /\ ~request.active
    /\ Call(userId, trackList, minLikes)
    /\ UNCHANGED endpoint_vars

\* The runs of two users: evaluations of both are recorded and
\* personalize_tracks is called for either, one call at a time.
NextUsers ==
    \/ \E userId \in Users, status \in EvaluationStatus, track \in TrackCacheKinds :
            RecordEvaluation(userId, status, track)
    \/ \E userId \in Users, trackList \in UserBatches, minLikes \in MinLikesValues :
            UserCall(userId, trackList, minLikes)
    \/ \E ok \in BOOLEAN : ReadLiked(ok)
    \/ \E ok \in BOOLEAN, scoreFails \in BOOLEAN : ReadDisliked(ok, scoreFails)
    \/ DirectReturn

SpecUsers == Init /\ [][NextUsers]_vars

\* ------------------------------------------------------------------------
\* Suggestions endpoint (main.py, api/deps.py)
\* ------------------------------------------------------------------------
\* The bearer token of a request: none, one that does not verify, one of
\* the first user.
Tokens == {"none", "invalid", "valid"}

\* get_optional_user: no token and a rejected token both give None.
get_optional_user(token) == IF token = "valid" THEN FirstUser ELSE NoUser

\* GET /api/v1/tracks/suggestions up to its first suspension after the
\* batch: get_suggestions returns the batch or raises; an anonymous
\* request is answered at once; an authenticated one calls
\* personalize_tracks, which returns at once on an empty batch.
Request(token, obtained, batch) ==
    LET caller == get_optional_user(token)
    IN  /\ ~request.active
        /\ pc = "idle"
        /\ request' = [active |-> TRUE, user |-> caller, obtained |-> obtained,
                       batch |-> IF obtained THEN batch ELSE <<>>]
        /\ IF ~obtained
           THEN /\ batch = <<>>
                /\ response' = [status |-> 500, data |-> <<>>]
                /\ UNCHANGED <<evaluations, call_vars, strategy_vars>>
           ELSE IF caller = NoUser
           THEN /\ response' = [status |-> 200, data |-> batch]
                /\ UNCHANGED <<evaluations, call_vars, strategy_vars>>
           ELSE /\ Call(caller, batch, DefaultMinLikes)
                /\ response' = IF batch = <<>>
                               THEN endpoint_response(batch, FALSE, batch)
                               ELSE NoResponse

\* The response has been sent; the request's objects are gone.
Deliver ==
    /\ request.active
    /\ response # NoResponse
    /\ request' = NoRequest
    /\ response' = NoResponse
    /\ IF pc = "done" THEN Return
       ELSE UNCHANGED <<evaluations, call_vars, strategy_vars>>

\* Requests to the endpoint while evaluations are recorded.
NextEndpoint ==
    \/ \E status \in EvaluationStatus, track \in TrackCacheKinds :
            RecordEvaluation(FirstUser, status, track)
    \/ \E token \in Tokens, obtained \in BOOLEAN, batch \in SeqsUpTo(TrackKinds, MaxTracks) :
            Request(token, obtained, batch)
    \/ \E ok \in BOOLEAN : ReadLiked(ok)
    \/ \E ok \in BOOLEAN, scoreFails \in BOOLEAN : ReadDisliked(ok, scoreFails)
    \/ Deliver

SpecEndpoint == Init /\ [][NextEndpoint]_vars

\* ------------------------------------------------------------------------
\* Strategy registry (search_strategies/__init__.py)
\* ------------------------------------------------------------------------
\* The names asked of get_strategy: the two special-cased ones and a name
\* resolved through importlib.
StrategyNames == {"chart_keyword", "user_preference_search", "plugin"}

\* What importing app.services.search_strategies.<name> does for a name
\* that is not special-cased.
ModuleKinds ==
    {"missing", "raises_ImportError", "raises_AttributeError", "raises_other",
     "no_strategy_class", "strategy_class", "strategy_class_needing_arguments"}

\* The keyword arguments a caller may pass: the two the constructor of
\* UserPreferenceSearchStrategy declares and one it does not. A key that
\* is passed carries a value that is not None.
KwargNames == {"session", "user_id", "limit"}

Instance(kind, session, userId) ==
    [raised |-> "none",
     instance |-> [kind |-> kind, session |-> session, user_id |-> userId,
                   _preferences |-> NoPreferences, _preferences_loaded |-> FALSE]]

Raise(exception) == [raised |-> exception, instance |-> NoStrategy]

\* ChartKeywordSearchStrategy(): the constructor takes no argument.
ChartKeywordSearchStrategy == Instance("chart_keyword", FALSE, FALSE)

\* Variant of the constructor whose two parameters have no default.
UserPreferenceSearchStrategy_required_arguments(kwargs) ==
    IF kwargs # {"session", "user_id"} THEN Raise("TypeError")
    ELSE Instance("user_preference_search", TRUE, TRUE)

\* UserPreferenceSearchStrategy(**kwargs): a keyword the signature does not
\* declare is a TypeError; the declared ones default to None.
UserPreferenceSearchStrategy(kwargs) ==
    IF ~(kwargs \subseteq {"session", "user_id"}) THEN Raise("TypeError")
    ELSE Instance("user_preference_search", "session" \in kwargs, "user_id" \in kwargs)

\* importlib.import_module, the scan of the module and obj().
load_module(module) ==
    CASE module = "missing" -> Raise("ImportError")
      [] module = "raises_ImportError" -> Raise("ImportError")
      [] module = "raises_AttributeError" -> Raise("AttributeError")
      [] module = "raises_other" -> Raise("OtherError")
      [] module = "no_strategy_class" -> Raise("ImportError")
      [] module = "strategy_class" -> Instance("plugin", FALSE, FALSE)
      [] module = "strategy_class_needing_arguments" -> Raise("TypeError")

\* get_strategy: the outcome, and the name its message carries.
get_strategy(strategy_name, kwargs, module) ==
    LET body == IF strategy_name = "chart_keyword" THEN ChartKeywordSearchStrategy
                ELSE IF strategy_name = "user_preference_search"
                     THEN UserPreferenceSearchStrategy(kwargs)
                     ELSE load_module(module)
    IN  IF body.raised \in {"ImportError", "AttributeError"}
        THEN [raised |-> "ImportError", names |-> strategy_name, instance |-> NoStrategy]
        ELSE [raised |-> body.raised, names |-> "", instance |-> body.instance]

\* ------------------------------------------------------------------------
\* Search by preference (search_strategies/user_preference_search.py)
\* ------------------------------------------------------------------------
Range(seq) == {seq[i] : i \in DOMAIN seq}

\* get_top_genres / get_top_artists: the values of the first `limit` pairs.
get_top(table, limit) ==
    [i \in 1 .. (IF Len(table) < limit THEN Len(table) ELSE limit) |-> table[i][1]]

default_terms == {"pop", "rock", "jazz", "electronic", "indie"}

\* Variant of _fallback_params that searches the genre index.
_fallback_params_by_genre ==
    {[term |-> t, entity |-> "song", attribute |-> "genreIndex"] : t \in default_terms}

\* _fallback_params: every value random.choice may pick.
_fallback_params == {[term |-> t, entity |-> "song"] : t \in default_terms}

\* _generate_preference_based_params for one outcome of
\* `random.random() < 0.7`: every value random.choice may pick.
_generate_preference_based_params(prefs, use_genre) ==
    LET top_genres == get_top(prefs.liked_genres, TopLimit)
        top_artists == get_top(prefs.liked_artists, TopLimit)
    IN  IF ~prefs.present THEN _fallback_params
        ELSE IF use_genre /\ top_genres # <<>>
        THEN {[term |-> g, entity |-> "song", attribute |-> "genreIndex"] :
                    g \in Range(top_genres)}
        ELSE IF top_artists # <<>>
        THEN {[term |-> a, entity |-> "song", attribute |-> "artistTerm"] :
                    a \in Range(top_artists)}
        ELSE _fallback_params

\* generate_params from `if not self._preferences` on.
generate_params_rest(prefs, use_genre) ==
    IF ~prefs.present THEN _fallback_params
    ELSE _generate_preference_based_params(prefs, use_genre)

\* The like histories the strategy's user may have when the strategy is
\* resolved: too few likes, one genre and no artist, one artist and no
\* genre, neither, and more than TopLimit genres and artists.
StrategyHistories ==
    {<<[genre |-> "Rock", artist |-> "Band"], [genre |-> "Pop", artist |-> ""]>>,
     <<[genre |-> "Pop", artist |-> ""], [genre |-> "Pop", artist |-> ""],
       [genre |-> "Pop", artist |-> ""]>>,
     <<[genre |-> "", artist |-> "Solo"], [genre |-> "", artist |-> "Solo"],
       [genre |-> "", artist |-> "Solo"]>>,
     <<[genre |-> "", artist |-> ""], [genre |-> "", artist |-> ""],
       [genre |-> "", artist |-> ""]>>,
     <<[genre |-> "Jazz", artist |-> "Trio"], [genre |-> "Jazz", artist |-> "Trio"],
       [genre |-> "Folk", artist |-> "Duo"], [genre |-> "Rock", artist |-> "Band"],
       [genre |-> "Pop", artist |-> "Singer"]>>}

InitStrategy ==
    /\ evaluations \in {[u \in Users |->
                            [LIKE |-> IF u = FirstUser THEN h ELSE <<>>, DISLIKE |-> <<>>]] :
                        h \in StrategyHistories}
    /\ Quiescent

\* A caller resolves a strategy by name; the module of a special-cased name
\* is not consulted.
GetStrategy(strategy_name, kwargs, module) ==
    LET res == get_strategy(strategy_name, kwargs, module)
    IN  /\ resolution = NoResolution
        /\ resolution' = [name |-> strategy_name, kwargs |-> kwargs,
                          module |-> IF strategy_name = "plugin" THEN module ELSE "",
                          error |-> res.raised, names |-> res.names]
        /\ strategy' = res.instance
        /\ UNCHANGED <<evaluations, call_vars, endpoint_vars, gen, loads>>

\* _load_preferences has assigned `profile`; generate_params sets the flag
\* and runs to its return without suspending.
Loaded(c, profile, use_genre) ==
    /\ strategy' = [strategy EXCEPT !._preferences = profile, !._preferences_loaded = TRUE]
    /\ \E params \in generate_params_rest(profile, use_genre) :
            gen' = [gen EXCEPT ![c] = [@ EXCEPT !.pc = "done", !.params = params]]

\* Variant of Generate without the `if not self._preferences_loaded` test.
Generate_always_loading(c, use_genre) ==
    /\ strategy.kind = "user_preference_search"
    /\ gen[c].pc = "idle"
    /\ IF ~strategy.session \/ ~strategy.user_id
       THEN /\ \E params \in _fallback_params :
                    gen' = [gen EXCEPT ![c] = [@ EXCEPT !.pc = "done", !.params = params]]
            /\ UNCHANGED loads
       ELSE /\ gen' = [gen EXCEPT ![c] = [@ EXCEPT !.pc = "load_liked", !.loading = TRUE]]
            /\ loads' = loads + 1
    /\ UNCHANGED <<evaluations, call_vars, endpoint_vars, resolution, strategy>>

\* generate_params is entered: it returns at once, or suspends in the
\* analyzer's first read.
Generate(c, use_genre) ==
    /\ strategy.kind = "user_preference_search"
    /\ gen[c].pc = "idle"
    /\ IF ~strategy.session \/ ~strategy.user_id
       THEN /\ \E params \in _fallback_params :
                    gen' = [gen EXCEPT ![c] = [@ EXCEPT !.pc = "done", !.params = params]]
            /\ UNCHANGED loads
       ELSE IF ~strategy._preferences_loaded
       THEN /\ gen' = [gen EXCEPT ![c] = [@ EXCEPT !.pc = "load_liked", !.loading = TRUE]]
            /\ loads' = loads + 1
       ELSE /\ \E params \in generate_params_rest(strategy._preferences, use_genre) :
                    gen' = [gen EXCEPT ![c] = [@ EXCEPT !.pc = "done", !.params = params]]
            /\ UNCHANGED loads
    /\ UNCHANGED <<evaluations, call_vars, endpoint_vars, resolution, strategy>>

\* The analyzer's first read returns or raises (the analyzer then returns
\* None).
LoadLiked(c, ok, use_genre) ==
    /\ gen[c].pc = "load_liked"
    /\ IF ok
       THEN /\ gen' = [gen EXCEPT ![c] = [@ EXCEPT !.pc = "load_disliked",
                                                   !.liked_tracks = liked_query(FirstUser)]]
            /\ UNCHANGED strategy
       ELSE Loaded(c, analyze_except.value, use_genre)
    /\ UNCHANGED <<evaluations, call_vars, endpoint_vars, resolution, loads>>

\* The analyzer's second read returns or raises.
LoadDisliked(c, ok, use_genre) ==
    /\ gen[c].pc = "load_disliked"
    /\ IF ok
       THEN Loaded(c, UserPreferences(gen[c].liked_tracks, disliked_query(FirstUser),
                                      StrategyMinLikes),
                   use_genre)
       ELSE Loaded(c, analyze_except.value, use_genre)
    /\ UNCHANGED <<evaluations, call_vars, endpoint_vars, resolution, loads>>

\* The caller has taken the parameters.
GenerateReturn(c) ==
    /\ gen[c].pc = "done"
    /\ gen' = [gen EXCEPT ![c] = IdleCall]
    /\ UNCHANGED <<evaluations, call_vars, endpoint_vars, resolution, strategy, loads>>

\* A call is in progress on the instance.
InFlight(c) == gen[c].pc \in {"load_liked", "load_disliked"}

\* generate_params is entered while no other call is in progress.
GenerateAlone(c, use_genre) ==
    /\ \A d \in CallIds : ~InFlight(d)
    /\ Generate(c, use_genre)

StrategyEnvironment ==
    \/ \E name \in StrategyNames, kwargs \in SUBSET KwargNames, module \in ModuleKinds :
            GetStrategy(name, kwargs, module)
    \/ \E status \in EvaluationStatus, track \in TrackCacheKinds :
            RecordEvaluation(FirstUser, status, track)
    \/ \E c \in CallIds, ok \in BOOLEAN, use_genre \in BOOLEAN :
            LoadLiked(c, ok, use_genre)
    \/ \E c \in CallIds, ok \in BOOLEAN, use_genre \in BOOLEAN :
            LoadDisliked(c, ok, use_genre)
    \/ \E c \in CallIds : GenerateReturn(c)

\* A resolved strategy whose generate_params calls may overlap.
NextStrategy ==
    \/ StrategyEnvironment
    \/ \E c \in CallIds, use_genre \in BOOLEAN :
            Generate(c, use_genre)

SpecStrategy == InitStrategy /\ [][NextStrategy]_vars

\* A resolved strategy whose generate_params calls do not overlap.
NextStrategySequential ==
    \/ StrategyEnvironment
    \/ \E c \in CallIds, use_genre \in BOOLEAN :
            GenerateAlone(c, use_genre)

SpecStrategySequential == InitStrategy /\ [][NextStrategySequential]_vars

\* ------------------------------------------------------------------------
\* Vocabulary of the properties
\* ------------------------------------------------------------------------
Count(seq, x) == Cardinality({i \in DOMAIN seq : seq[i] = x})

FirstIndex(seq, x) == CHOOSE i \in DOMAIN seq : seq[i] = x /\ \A j \in 1 .. i - 1 : seq[j] # x

GenreValues(trackList) == [i \in DOMAIN trackList |-> trackList[i].genre]

ArtistValues(trackList) == [i \in DOMAIN trackList |-> trackList[i].artist]

Called == pc = "done" /\ tracks # <<>>

ReadsSucceeded == Called /\ fault \notin {"liked_read", "disliked_read"}

\* C1: the list personalize_tracks returns is a permutation of its argument:
\* same length, same number of occurrences of every track.
C1_Permutation ==
    pc = "done" =>
        /\ ~raised
        /\ Len(returned) = Len(tracks)
        /\ \A t \in TrackKinds : Count(returned, t) = Count(tracks, t)

C1_Witness ==
    /\ pc = "done"
    /\ path = "success"
    /\ Len(tracks) = MaxTracks
    /\ returned # tracks
    /\ \E t \in TrackKinds : Count(tracks, t) = 2

\* C2: on the success path the result is sorted by score, highest first, and
\* for every score the tracks of that score come in their input order.
C2_StableDescending ==
    (pc = "done" /\ path = "success") =>
        LET score(t) == _score_track(t, preferences)
        IN  /\ \A i, j \in DOMAIN returned :
                   i < j => score(returned[i]) >= score(returned[j])
            /\ \A t \in TrackKinds :
                   SelectSeq(returned, LAMBDA u : score(u) = score(t))
                       = SelectSeq(tracks, LAMBDA u : score(u) = score(t))

C2_Witness ==
    /\ pc = "done"
    /\ path = "success"
    /\ returned # tracks
    /\ \E i, j \in DOMAIN returned :
           /\ i < j
           /\ returned[i] # returned[j]
           /\ _score_track(returned[i], preferences) = _score_track(returned[j], preferences)

\* C3: when the analyzer returns no profile or a step of the call raises,
\* personalize_tracks returns its argument in the original order and raises
\* nothing.
C3_DegradedReturnsOriginal ==
    (Called /\ (fault # "none" \/ ~preferences.present)) =>
        /\ returned = tracks
        /\ ~raised

C3_Witness ==
    /\ Called
    /\ fault = "score"
    /\ preferences.present
    /\ personalized(tracks, preferences) # tracks
    /\ returned = tracks

\* C4: when both reads succeed, analyze_preferences returns no profile
\* exactly when fewer than min_likes liked tracks were read, whatever the
\* disliked tracks are.
C4_AbsentIffFewLikes ==
    ReadsSucceeded => (~preferences.present <=> Len(liked_tracks) < min_likes)

C4_Witness ==
    /\ ReadsSucceeded
    /\ ~preferences.present
    /\ Len(liked_tracks) = min_likes - 1
    /\ Len(liked_tracks) + Len(disliked_tracks) >= min_likes

\* C5: when either read fails, analyze_preferences returns no profile and
\* raises nothing, whatever the number of liked tracks.
C5_ReadFailureIsAbsent ==
    (Called /\ fault \in {"liked_read", "disliked_read"}) =>
        /\ ~preferences.present
        /\ ~analyzer_raised

C5_Witness ==
    /\ Called
    /\ fault = "disliked_read"
    /\ Len(liked_tracks) >= min_likes
    /\ ~preferences.present

\* The count a frequency table holds for a value (0 when it holds none).
TableCount(table, value) ==
    IF \E i \in DOMAIN table : table[i][1] = value
    THEN (CHOOSE pair \in {table[i] : i \in DOMAIN table} : pair[1] = value)[2]
    ELSE 0

\* The four adjustments of the scoring rule, summed.
ExpectedScore(t, prefs) ==
    LET likedGenre == TableCount(prefs.liked_genres, t.genre)
        dislikedGenre == TableCount(prefs.disliked_genres, t.genre)
        likedArtist == TableCount(prefs.liked_artists, t.artist)
        dislikedArtist == TableCount(prefs.disliked_artists, t.artist)
    IN    (IF t.genre # "" /\ likedGenre > 0 THEN 10 + likedGenre ELSE 0)
        + (IF t.genre # "" /\ dislikedGenre > 0 THEN 0 - 5 ELSE 0)
        + (IF t.artist # "" /\ likedArtist > 0 THEN 15 + 2 * likedArtist ELSE 0)
        + (IF t.artist # "" /\ dislikedArtist > 0 THEN 0 - 10 ELSE 0)

\* A worked example: two Rock likes and one Pop like, both Rock likes by
\* Rock Band, Jazz disliked; no artist disliked.
ExampleProfile ==
    [present |-> TRUE,
     liked_genres |-> << <<"Rock", 2>>, <<"Pop", 1>> >>,
     liked_artists |-> << <<"Rock Band", 2>> >>,
     disliked_genres |-> << <<"Jazz", 1>> >>,
     disliked_artists |-> <<>>,
     total_likes |-> 3, total_dislikes |-> 1]

\* C6: the score of a track is the sum of the four independent adjustments
\* (liked genre +(10+count), disliked genre -5, liked artist +(15+2*count),
\* disliked artist -10); a value in both a liked and a disliked table gets
\* both, and a track with neither genre nor artist scores 0.
C6_ScoreIsSumOfFourTerms ==
    /\ preferences.present =>
           /\ \A t \in TrackKinds :
                  _score_track(t, preferences) = ExpectedScore(t, preferences)
           /\ _score_track([genre |-> "", artist |-> ""], preferences) = 0
    /\ _score_track([genre |-> "Rock", artist |-> "Rock Band"], ExampleProfile) = 31
    /\ _score_track([genre |-> "Jazz", artist |-> "Jazz Artist"], ExampleProfile) = 0 - 5

C6_Witness ==
    /\ pc = "done"
    /\ path = "success"
    /\ \E i \in DOMAIN tracks :
           /\ tracks[i].genre # ""
           /\ tracks[i].artist # ""
           /\ TableCount(preferences.liked_genres, tracks[i].genre) = 2
           /\ TableCount(preferences.disliked_genres, tracks[i].genre) = 1
           /\ TableCount(preferences.liked_artists, tracks[i].artist) = 2
           /\ TableCount(preferences.disliked_artists, tracks[i].artist) = 1
           /\ _score_track(tracks[i], preferences) = 12 - 5 + 19 - 10

\* C7: a returned profile's total_likes and total_dislikes are the numbers
\* of liked and disliked records the two reads returned, records with empty
\* fields included.
C7_TotalsAreReadCounts ==
    preferences.present =>
        /\ preferences.total_likes = Len(liked_tracks)
        /\ preferences.total_dislikes = Len(disliked_tracks)

C7_Witness ==
    /\ preferences.present
    /\ preferences.total_likes = MaxLikes - 1
    /\ Len(evaluations[user]["LIKE"]) = MaxLikes
    /\ preferences.total_dislikes = 1
    /\ \E i \in DOMAIN liked_tracks : liked_tracks[i].genre = ""
    /\ disliked_tracks[1].artist = ""

\* A table holds exactly the frequencies of the non-empty values.
ExactFrequencies(table, values) ==
    /\ \A i \in DOMAIN table :
           /\ table[i][1] # ""
           /\ table[i][2] = Count(values, table[i][1])
           /\ table[i][2] > 0
    /\ \A i, j \in DOMAIN table : table[i][1] = table[j][1] => i = j
    /\ \A k \in DOMAIN values :
           values[k] # "" => \E i \in DOMAIN table : table[i][1] = values[k]

\* C8: each of the four tables of a profile holds one entry per non-empty
\* value of its track set, with the number of tracks carrying the value;
\* empty fields give no entry, and no other value appears.
C8_TablesAreExactFrequencies ==
    preferences.present =>
        /\ ExactFrequencies(preferences.liked_genres, GenreValues(liked_tracks))
        /\ ExactFrequencies(preferences.liked_artists, ArtistValues(liked_tracks))
        /\ ExactFrequencies(preferences.disliked_genres, GenreValues(disliked_tracks))
        /\ ExactFrequencies(preferences.disliked_artists, ArtistValues(disliked_tracks))

C8_Witness ==
    /\ preferences.present
    /\ Len(liked_tracks) = 3
    /\ Len(preferences.liked_genres) = 2
    /\ Len(preferences.liked_artists) = 1
    /\ \E i \in DOMAIN liked_tracks : liked_tracks[i].artist = ""
    /\ Len(disliked_tracks) = 1
    /\ preferences.disliked_genres = <<>>
    /\ Len(preferences.disliked_artists) = 1

\* Count descending, ties in the order the values were first met.
FrequencyRanked(table, values) ==
    \A i, j \in DOMAIN table :
        i < j =>
            \/ table[i][2] > table[j][2]
            \/ /\ table[i][2] = table[j][2]
               /\ FirstIndex(values, table[i][1]) < FirstIndex(values, table[j][1])

\* C9: each table of a profile is ordered by count, highest first, and
\* entries of equal count in the order their values were first met in the
\* track set.
C9_TablesAreFrequencyRanked ==
    preferences.present =>
        /\ FrequencyRanked(preferences.liked_genres, GenreValues(liked_tracks))
        /\ FrequencyRanked(preferences.liked_artists, ArtistValues(liked_tracks))
        /\ FrequencyRanked(preferences.disliked_genres, GenreValues(disliked_tracks))
        /\ FrequencyRanked(preferences.disliked_artists, ArtistValues(disliked_tracks))

C9_Witness ==
    /\ preferences.present
    /\ Len(preferences.liked_genres) = 2
    /\ preferences.liked_genres[1][2] = 2
    /\ liked_tracks[1].genre = preferences.liked_genres[2][1]

\* C10: called with an empty list, personalize_tracks returns the empty
\* list without invoking the analyzer and without reading the store.
C10_EmptyBatchIsNoOp ==
    (pc = "done" /\ tracks = <<>>) =>
        /\ returned = <<>>
        /\ ~raised
        /\ analyzer_calls = 0
        /\ store_reads = 0

C10_Witness ==
    /\ pc = "done"
    /\ tracks = <<>>
    /\ returned = <<>>
    /\ Len(evaluations[user]["LIKE"]) >= min_likes
    /\ evaluations[user]["DISLIKE"] # <<>>

\* ------------------------------------------------------------------------
\* Search by preference and the registry
\* ------------------------------------------------------------------------
\* A generate_params call returns in this step.
Returns(c) == gen[c].pc # "done" /\ gen'[c].pc = "done"

\* The instance can consult the store.
CanLoad(instance) == instance.session /\ instance.user_id

\* Default-keyword parameters: a default term, entity "song", no attribute.
FallbackShaped(params) ==
    /\ DOMAIN params = {"term", "entity"}
    /\ params.term \in {"pop", "rock", "jazz", "electronic", "indie"}
    /\ params.entity = "song"

\* The first three entries of a ranked table.
TopThree(table) == {table[i][1] : i \in {j \in DOMAIN table : j <= 3}}

\* Parameters that search one of the top three liked genres or artists.
PreferenceShaped(params, prefs) ==
    /\ DOMAIN params = {"term", "entity", "attribute"}
    /\ params.entity = "song"
    /\ \/ params.attribute = "genreIndex" /\ params.term \in TopThree(prefs.liked_genres)
       \/ params.attribute = "artistTerm" /\ params.term \in TopThree(prefs.liked_artists)

\* C11: a generate_params call that returns on an instance without store
\* handle, without user id, or whose loaded profile is absent, returns
\* default-keyword parameters: one of the five default terms, entity
\* "song", no attribute.
C11_FallbackWithoutProfile ==
    [][\A c \in CallIds :
            (Returns(c) /\ (~CanLoad(strategy') \/ ~strategy'._preferences.present))
                => FallbackShaped(gen'[c].params)]_vars

\* A call has returned default parameters because the profile it loaded
\* from two likes is absent.
C11_Witness ==
    \E c \in CallIds :
        /\ gen[c].pc = "done"
        /\ gen[c].loading
        /\ Len(gen[c].liked_tracks) = 2
        /\ CanLoad(strategy)
        /\ strategy._preferences_loaded
        /\ ~strategy._preferences.present
        /\ FallbackShaped(gen[c].params)

\* C12: when the generate_params calls on an instance with store handle and
\* user id do not overlap, only a call entered before anything was loaded
\* invokes the analyzer, the analyzer is invoked once, and from then on the
\* instance's profile (present or absent) never changes and every later
\* call returns at once with parameters made from it, whatever the store
\* holds by then.
C12_LoadedOnceAndReused ==
    [][/\ loads' <= 1
       /\ strategy._preferences_loaded =>
            /\ strategy' = strategy
            /\ loads' = loads
            /\ \A c \in CallIds :
                    (gen[c].pc = "idle" /\ gen'[c].pc # "idle") =>
                        /\ gen'[c].pc = "done"
                        /\ ~gen'[c].loading
                        /\ \/ FallbackShaped(gen'[c].params) /\ ~strategy._preferences.present
                           \/ FallbackShaped(gen'[c].params)
                                /\ strategy._preferences.liked_genres = <<>>
                                /\ strategy._preferences.liked_artists = <<>>
                           \/ strategy._preferences.present
                                /\ gen'[c].params
                                     \in UNION {generate_params_rest(strategy._preferences, u) :
                                                    u \in BOOLEAN}
       /\ \A c \in CallIds : (~gen[c].loading /\ gen'[c].loading) => loads = 0]_vars

\* A later call has returned default parameters from the absent profile of
\* the first call although the store holds enough likes by now.
C12_Witness ==
    \E c \in CallIds :
        /\ gen[c].pc = "done"
        /\ ~gen[c].loading
        /\ CanLoad(strategy)
        /\ strategy._preferences_loaded
        /\ ~strategy._preferences.present
        /\ Len(evaluations[FirstUser]["LIKE"]) >= StrategyMinLikes
        /\ loads = 1
        /\ FallbackShaped(gen[c].params)

\* C13: on an instance whose loaded profile is present with liked genres or
\* liked artists, every returned parameter set searches one of the top
\* three liked genres (attribute "genreIndex") or one of the top three
\* liked artists (attribute "artistTerm").
C13_PreferenceTermsWhenAvailable ==
    \A c \in CallIds :
        (/\ gen[c].pc = "done"
         /\ CanLoad(strategy)
         /\ strategy._preferences.present
         /\ (strategy._preferences.liked_genres # <<>>
                \/ strategy._preferences.liked_artists # <<>>))
            => PreferenceShaped(gen[c].params, strategy._preferences)

\* C14: get_strategy lets no error but not-found escape, and for a name
\* whose module is missing, has no strategy class or fails to load in any
\* way it fails with not-found, the message naming the requested name.
C14_OnlyNotFoundEscapes ==
    resolution.name # "" =>
        /\ resolution.error \in {"none", "ImportError"}
        /\ resolution.error = "ImportError" => resolution.names = resolution.name
        /\ (/\ resolution.name = "plugin"
            /\ resolution.module \in {"missing", "raises_ImportError", "raises_AttributeError",
                                      "raises_other", "no_strategy_class"})
                => resolution.error = "ImportError"

C17_LoadedAtMostOnce ==
    [][/\ loads' <= 1
       /\ strategy._preferences_loaded => strategy'._preferences = strategy._preferences]_vars

\* ------------------------------------------------------------------------
\* The endpoint, calls for two users, the caller's list
\* ------------------------------------------------------------------------
\* A response to a request whose batch was obtained.
Answered == request.active /\ request.obtained /\ response # NoResponse

\* C16: once the batch is obtained the response is a success carrying the
\* batch's tracks, each as often as in the batch: for an authenticated
\* caller whose personalization succeeded, sorted by score, highest first,
\* equal scores in batch order; for an anonymous caller and when
\* personalization fell back, the batch itself in its order.
C16_ResponseCarriesTheBatch ==
    Answered =>
        /\ response.status = 200
        /\ Len(response.data) = Len(request.batch)
        /\ \A t \in TrackKinds : Count(response.data, t) = Count(request.batch, t)
        /\ (request.user = NoUser \/ path # "success") => response.data = request.batch
        /\ (request.user # NoUser /\ path = "success") =>
                LET score(t) == ExpectedScore(t, preferences)
                IN  /\ \A i, j \in DOMAIN response.data :
                           i < j => score(response.data[i]) >= score(response.data[j])
                    /\ \A t \in TrackKinds :
                           SelectSeq(response.data, LAMBDA u : score(u) = score(t))
                               = SelectSeq(request.batch, LAMBDA u : score(u) = score(t))

\* An authenticated request has been answered with the batch reordered.
C16_Witness ==
    /\ Answered
    /\ request.user = FirstUser
    /\ path = "success"
    /\ response.data # request.batch
    /\ Len(response.data) = MaxTracks

IsPrefix(s, t) == Len(s) <= Len(t) /\ SubSeq(t, 1, Len(s)) = s

\* C18: every personalize_tracks call reads the calling user's evaluations
\* as the store holds them at the moment of each read, the store only ever
\* grows (so what was recorded before the call is among them), and the
\* profile and the ranking are computed from these reads alone.
C18_RanksFromCurrentStore ==
    [][/\ \A u \in Users, s \in EvaluationStatus :
              IsPrefix(evaluations[u][s], evaluations'[u][s])
       /\ (pc = "read_liked" /\ pc' = "read_disliked") =>
              liked_tracks' = evaluations[user]["LIKE"]
       /\ (pc = "read_disliked" /\ pc' = "done" /\ fault' # "disliked_read") =>
              /\ disliked_tracks' = evaluations[user]["DISLIKE"]
              /\ preferences' = UserPreferences(liked_tracks, disliked_tracks', min_likes)
              /\ path' = "success" =>
                    \A i, j \in DOMAIN returned' :
                        i < j => ExpectedScore(returned'[i], preferences')
                                    >= ExpectedScore(returned'[j], preferences')]_vars

\* A call for the first user has ranked the batch while the other user's
\* likes would have ranked it differently.
C18_Witness ==
    /\ pc = "done"
    /\ path = "success"
    /\ user = FirstUser
    /\ liked_tracks = evaluations[FirstUser]["LIKE"]
    /\ evaluations[OtherUser]["LIKE"] # <<>>
    /\ returned # personalized(tracks, UserPreferences(evaluations[OtherUser]["LIKE"],
                                                       evaluations[OtherUser]["DISLIKE"], 1))

\* C19: personalize_tracks leaves the list it was given as it was: from the
\* call to its return the list's contents and order do not change.
C19_ArgumentUnchanged ==
    [][(pc \in {"read_liked", "read_disliked"}) => tracks' = tracks]_vars

\* A call has returned a reordered result while its argument kept its order.
C19_Witness ==
    /\ pc = "done"
    /\ path = "success"
    /\ Len(tracks) = 2
    /\ returned = <<tracks[2], tracks[1]>>
    /\ tracks[1] # tracks[2]

====
